---------------------------- MODULE Spec2Model ----------------------------
(***************************************************************************)
(* Particle sources of source.cpp: the dispatcher TSource, the base        *)
(* factory TParticleSource::CreateParticle, the surface source and the     *)
(* volume source with its phase-space-weighted rejection loop.             *)
(*                                                                         *)
(* Real numbers are modelled on an integer grid.  Collaborators that live  *)
(* outside source.cpp (random generator, meshes, particle constructors)    *)
(* are modelled by the contracts the specification gives for them.         *)
(***************************************************************************)
EXTENDS Integers, Sequences, FiniteSets, TLC

VARIABLES
    pc,              \* position of the program: start, idle, loop, final, exited, crashed
    sourcemode,      \* key of the SOURCE entry (TSource::sourcemode)
    sourceconf,      \* value of the SOURCE entry: sequence of whitespace separated tokens
    geometry,        \* geometry.mesh.triangles: sequence of triangles
    source,          \* the concrete source built by TSource (class "NULL" before)
    ParticleCounter, \* TParticleSource::ParticleCounter
    loc,             \* locals of the running TVolumeSource::CreateParticle call
    trials,          \* provisional particles of the running / last volume call, in order
    draws,           \* calls made on the random generator in the running / last call
    last,            \* the particle the last finished call returned
    returned,        \* ID fields of the particles returned so far, in call order
    ncalls           \* CreateParticle calls started so far

vars == <<pc, sourcemode, sourceconf, geometry, source, ParticleCounter,
          loc, trials, draws, last, returned, ncalls>>

-----------------------------------------------------------------------------
(* Bounds of the model *)

\* MAX_DICE_ROLL is 42000000 in the program (source.cpp:16); the model runs the
\* same loop with a small cap.
MAX_DICE_ROLL == 2

\* CreateParticle calls per run
MaxCalls == 2

\* tokens of a SOURCE entry beyond the longest field list
MaxExtra == 1

-----------------------------------------------------------------------------
(* Program constants *)

NAME_NEUTRON == "neutron"
NAME_PROTON == "proton"
NAME_ELECTRON == "electron"

\* TParticle::ID, the status of a particle: as constructed, and the sentinel
ID_UNKNOWN == "ID_UNKNOWN"
ID_INITIAL_NOT_FOUND == "ID_INITIAL_NOT_FOUND"

Min2(a, b) == IF a <= b THEN a ELSE b
Max2(a, b) == IF a <= b THEN b ELSE a
Between(lo, hi) == Min2(lo, hi) .. Max2(lo, hi)

-----------------------------------------------------------------------------
(* The configuration stream: istringstream sourceconf(...) and operator>>  *)

\* Tokens a SOURCE entry is built from: numbers that are also valid bools,
\* a number that is no bool, a word, and a number with trailing letters.
Tokens == {"0", "1", "2", "abc", "1abc"}

NumVal(tok) == CASE tok = "0" -> 0
                 [] tok = "1" -> 1
                 [] tok = "2" -> 2
                 [] tok = "1abc" -> 1
                 [] OTHER -> 0

\* the stream: tokens still unread, and the failbit
Stream(toks) == [toks |-> toks, fail |-> FALSE]

Failed(s) == [toks |-> s.toks, fail |-> TRUE]

\* sourceconf >> string: any token is a string; end of input sets failbit
ExtractString(s) ==
    IF s.fail \/ s.toks = <<>>
    THEN [s |-> Failed(s), v |-> ""]
    ELSE [s |-> Stream(Tail(s.toks)), v |-> Head(s.toks)]

\* sourceconf >> double: the longest numeric prefix of the next token is
\* converted and the rest of the token stays in the stream
ExtractDouble(s) ==
    IF s.fail \/ s.toks = <<>> THEN [s |-> Failed(s), v |-> 0]
    ELSE LET tok == Head(s.toks) IN
         CASE tok = "abc" -> [s |-> Failed(s), v |-> 0]
           [] tok = "1abc" -> [s |-> Stream(<<"abc">> \o Tail(s.toks)), v |-> 1]
           [] OTHER -> [s |-> Stream(Tail(s.toks)), v |-> NumVal(tok)]

\* ExtractBool reading the flag as any integer (mutant)
ExtractBool_AnyInt(s) ==
    IF s.fail \/ s.toks = <<>> THEN [s |-> Failed(s), v |-> FALSE]
    ELSE LET tok == Head(s.toks) IN
         CASE tok = "abc" -> [s |-> Failed(s), v |-> FALSE]
           [] tok = "1abc" -> [s |-> Stream(<<"abc">> \o Tail(s.toks)), v |-> TRUE]
           [] OTHER -> [s |-> Stream(Tail(s.toks)), v |-> (NumVal(tok) # 0)]

\* sourceconf >> bool (no boolalpha): an integer is read; 0 and 1 convert,
\* any other integer sets failbit
ExtractBool(s) ==
    IF s.fail \/ s.toks = <<>> THEN [s |-> Failed(s), v |-> FALSE]
    ELSE LET tok == Head(s.toks) IN
         CASE tok = "abc" -> [s |-> Failed(s), v |-> FALSE]
           [] tok = "2" -> [s |-> Failed(Stream(Tail(s.toks))), v |-> TRUE]
           [] tok = "1abc" -> [s |-> Stream(<<"abc">> \o Tail(s.toks)), v |-> TRUE]
           [] OTHER -> [s |-> Stream(Tail(s.toks)), v |-> (NumVal(tok) = 1)]

\* sourceconf >> d1 >> ... >> dn for n doubles: the stream after, and the values
RECURSIVE ExtractDoubles(_, _)
ExtractDoubles(s, n) ==
    IF n = 0 THEN [s |-> s, v |-> <<>>]
    ELSE LET r == ExtractDoubles(s, n - 1)
             d == ExtractDouble(r.s)
         IN [s |-> d.s, v |-> Append(r.v, d.v)]

-----------------------------------------------------------------------------
(* Geometry: points of the integer grid, triangles, meshes *)

Pt(x, y, z) == <<x, y, z>>

\* a TTriangle: its three vertices and what area() returns for it
Tri(v0, v1, v2, a) == [tri |-> <<v0, v1, v2>>, area |-> a]

TriA == Tri(Pt(1,0,0), Pt(2,0,0), Pt(1,0,1), 1)
TriB == Tri(Pt(0,0,0), Pt(2,0,2), Pt(0,0,2), 4)
TriC == Tri(Pt(1,0,1), Pt(2,0,1), Pt(2,0,2), 1)
TriD == Tri(Pt(0,0,2), Pt(2,0,2), Pt(1,0,2), 0)
TriE == Tri(Pt(0,1,0), Pt(0,1,1), Pt(0,2,0), 3)

\* the geometry meshes a run may be given
Geometries == { <<TriA, TriB, TriC, TriD>>, <<TriD, TriE, TriB, TriA>> }

\* sqrt of a perfect square
Sqrt(n) == CHOOSE r \in 0..n : r * r = n

\* Angles in radians are kept as integers in units of pi/360, so that the
\* configured degrees times conv (pi/180) are twice the configured number.
Conv(deg) == deg + deg

\* atan2(y, x) for a point on a coordinate axis
Atan2(y, x) == CASE y = 0 /\ x >= 0 -> 0
                 [] y > 0 /\ x = 0 -> 180
                 [] y = 0 /\ x < 0 -> 360
                 [] OTHER -> -180

\* cos and sin of a multiple of pi/2
Cos(phi) == CASE phi % 720 = 0 -> 1 [] phi % 720 = 360 -> -1 [] OTHER -> 0
Sin(phi) == CASE phi % 720 = 180 -> 1 [] phi % 720 = 540 -> -1 [] OTHER -> 0

\* TTriangleMesh / TKDTree read from a source file: the grid points inside the
\* solid the file describes (InSolid), by file name
Solid(file) ==
    CASE file = "1" -> {Pt(x, 0, z) : x \in 0..2, z \in 0..1}
      [] file = "2" -> {p \in {Pt(x, 0, z) : x \in 0..1, z \in 0..1} : p[1] + p[3] <= 1}
      [] OTHER -> {}

InSolid(file, p) == p \in Solid(file)

\* kdtree.tree.bbox(): per axis, the smallest and largest coordinate
BBoxMin(file, ax) == CHOOSE m \in {p[ax] : p \in Solid(file)} :
                        \A p \in Solid(file) : m <= p[ax]
BBoxMax(file, ax) == CHOOSE m \in {p[ax] : p \in Solid(file)} :
                        \A p \in Solid(file) : m >= p[ax]

-----------------------------------------------------------------------------
(* The source classes *)

VolumeClasses == {"TCuboidVolumeSource", "TCylindricalVolumeSource", "TSTLVolumeSource"}
SurfaceClasses == {"TCylindricalSurfaceSource", "TSTLSurfaceSource"}

\* source(NULL)
NullSource ==
    [class |-> "NULL", fParticleName |-> "", fActiveTime |-> 0,
     fPhaseSpaceWeighting |-> FALSE, Enormal |-> 0, par |-> <<>>, file |-> "",
     sourcetris |-> <<>>, sourcearea |-> 0]

\* TParticleSource / TSurfaceSource / TVolumeSource constructors: the fields
\* every source starts with (ParticleCounter(0) is set by the dispatcher action)
NewSource(class, name, ActiveTime) ==
    [NullSource EXCEPT !.class = class, !.fParticleName = name,
                       !.fActiveTime = ActiveTime]

\* sum of the areas of a triangle list, accumulated in list order
RECURSIVE SumArea(_)
SumArea(tris) ==
    IF tris = <<>> THEN 0 ELSE SumArea(SubSeq(tris, 1, Len(tris) - 1)) + tris[Len(tris)].area

\* the vertices of a mesh
Vertices(geom) == UNION { {geom[i].tri[1], geom[i].tri[2], geom[i].tri[3]} : i \in 1..Len(geom) }

\* the loop of the clipped surface constructors: the triangles of the geometry
\* whose three vertices are all inside, pushed back in mesh order
RECURSIVE ClipTris(_, _)
ClipTris(geom, inside) ==
    IF geom = <<>> THEN <<>>
    ELSE LET t == Head(geom)
             rest == ClipTris(Tail(geom), inside)
         IN IF t.tri[1] \in inside /\ t.tri[2] \in inside /\ t.tri[3] \in inside
            THEN <<t>> \o rest ELSE rest

\* TCylindricalSurfaceSource::InSourceVolume; par = <<rmin, rmax, phimin, phimax, zmin, zmax>>
CylInSourceVolume(par, p) ==
    LET r == Sqrt(p[1] * p[1] + p[2] * p[2])
        phi == Atan2(p[2], p[1])
    IN /\ r >= par[1] /\ r <= par[2]
       /\ phi >= par[3] /\ phi <= par[4]
       /\ p[3] >= par[5] /\ p[3] <= par[6]

TCuboidVolumeSource(name, ActiveTime, psw, par) ==
    [NewSource("TCuboidVolumeSource", name, ActiveTime)
        EXCEPT !.fPhaseSpaceWeighting = psw, !.par = par]

TCylindricalVolumeSource(name, ActiveTime, psw, par) ==
    [NewSource("TCylindricalVolumeSource", name, ActiveTime)
        EXCEPT !.fPhaseSpaceWeighting = psw, !.par = par]

TSTLVolumeSource(name, ActiveTime, psw, file) ==
    [NewSource("TSTLVolumeSource", name, ActiveTime)
        EXCEPT !.fPhaseSpaceWeighting = psw, !.file = file]

TCylindricalSurfaceSource(name, ActiveTime, geom, E_normal, par) ==
    LET tris == ClipTris(geom, {p \in Vertices(geom) : CylInSourceVolume(par, p)})
    IN [NewSource("TCylindricalSurfaceSource", name, ActiveTime)
          EXCEPT !.Enormal = E_normal, !.par = par,
                 !.sourcetris = tris, !.sourcearea = SumArea(tris)]

TSTLSurfaceSource(name, ActiveTime, geom, file, E_normal) ==
    LET tris == ClipTris(geom, {p \in Vertices(geom) : InSolid(file, p)})
    IN [NewSource("TSTLSurfaceSource", name, ActiveTime)
          EXCEPT !.Enormal = E_normal, !.file = file,
                 !.sourcetris = tris, !.sourcearea = SumArea(tris)]

-----------------------------------------------------------------------------
(* The dispatcher *)

\* TSource::TSource up to the test of source: the source built from the entry
\* (mode, conf) or NullSource.  if (sourceconf) is the stream's failbit being clear.
TSource(mode, conf, geom) ==
    LET name == ExtractString(Stream(conf)) IN
    CASE mode = "boxvolume" ->
           LET d == ExtractDoubles(name.s, 6)
               at == ExtractDouble(d.s)
               psw == ExtractBool(at.s)
           IN IF ~psw.s.fail
              THEN TCuboidVolumeSource(name.v, at.v, psw.v, d.v)
              ELSE NullSource
      [] mode = "cylvolume" ->
           LET d == ExtractDoubles(name.s, 6)
               at == ExtractDouble(d.s)
               psw == ExtractBool(at.s)
           IN IF ~psw.s.fail
              THEN TCylindricalVolumeSource(name.v, at.v, psw.v,
                     <<d.v[1], d.v[2], Conv(d.v[3]), Conv(d.v[4]), d.v[5], d.v[6]>>)
              ELSE NullSource
      [] mode = "STLvolume" ->
           LET f == ExtractString(name.s)
               at == ExtractDouble(f.s)
               psw == ExtractBool(at.s)
           IN IF ~psw.s.fail
              THEN TSTLVolumeSource(name.v, at.v, psw.v, f.v)
              ELSE NullSource
      [] mode = "cylsurface" ->
           LET d == ExtractDoubles(name.s, 6)
               at == ExtractDouble(d.s)
               en == ExtractDouble(at.s)
           IN IF ~en.s.fail
              THEN TCylindricalSurfaceSource(name.v, at.v, geom, en.v,
                     <<d.v[1], d.v[2], Conv(d.v[3]), Conv(d.v[4]), d.v[5], d.v[6]>>)
              ELSE NullSource
      [] mode = "STLsurface" ->
           LET f == ExtractString(name.s)
               at == ExtractDouble(f.s)
               en == ExtractDouble(at.s)
           IN IF ~en.s.fail
              THEN TSTLSurfaceSource(name.v, at.v, geom, f.v, en.v)
              ELSE NullSource
      [] OTHER -> NullSource

-----------------------------------------------------------------------------
(* Particles and the base factory *)

\* the potential energy the field gives a particle at a point
Potential(pos) == pos[3] - 1

\* no particle (the value of last before any call has returned)
NoParticle ==
    [number |-> 0, ID |-> "none", pos |-> <<0, 0, 0>>, E |-> 0, Hstart |-> 0, type |-> ""]

\* new TNeutron / TProton / TElectron (number, t, x, y, z, E, ...): Hstart() is
\* the kinetic energy the particle is created with plus the potential there
TParticle(type, number, pos, E) ==
    [number |-> number, ID |-> ID_UNKNOWN, pos |-> pos, E |-> E,
     Hstart |-> E + Potential(pos), type |-> type]

\* CreateParticle with the last branch constructing instead of exiting (mutant)
CreateParticle_NoExit(fParticleName, counter, pos, E) ==
    [exit |-> FALSE, ParticleCounter |-> counter + 1,
     p |-> TParticle("TElectron", counter + 1, pos, E)]

\* TParticleSource::CreateParticle: the particle, the counter after, and
\* whether the process exited instead
CreateParticle(fParticleName, counter, pos, E) ==
    IF fParticleName = NAME_NEUTRON
    THEN [exit |-> FALSE, ParticleCounter |-> counter + 1,
          p |-> TParticle("TNeutron", counter + 1, pos, E)]
    ELSE IF fParticleName = NAME_PROTON
    THEN [exit |-> FALSE, ParticleCounter |-> counter + 1,
          p |-> TParticle("TProton", counter + 1, pos, E)]
    ELSE IF fParticleName = NAME_ELECTRON
    THEN [exit |-> FALSE, ParticleCounter |-> counter + 1,
          p |-> TParticle("TElectron", counter + 1, pos, E)]
    ELSE [exit |-> TRUE, ParticleCounter |-> counter, p |-> NoParticle]

-----------------------------------------------------------------------------
(* The random generator, on the grid *)

\* mc.UniformDist(lo, hi) and mc.LinearDist(lo, hi): the grid values in range
UniformDist(lo, hi) == Between(lo, hi)
LinearDist(lo, hi) == Between(lo, hi)

\* mc.Spectrum: the energies a spectrum may return (a test spectrum may be
\* forced to zero or below)
Spectrum == {-1, 0, 1, 2}

\* no locals (between calls)
NoLoc == [H |-> 0, E |-> 0, pos |-> <<0, 0, 0>>, nroll |-> 0, RandA |-> 0, sel |-> 0]

-----------------------------------------------------------------------------
(* TSurfaceSource::CreateParticle *)

\* the scan of lines 51-56: the index of the triangle the iterator stops on,
\* Len(tris) + 1 when the loop runs to sourcetris.end()
RECURSIVE ScanFrom(_, _, _, _)
ScanFrom(tris, RandA, k, SumA) ==
    IF k > Len(tris) THEN k
    ELSE IF RandA <= SumA + tris[k].area THEN k
    ELSE ScanFrom(tris, RandA, k + 1, SumA + tris[k].area)

\* the scan with a strict comparison (mutant)
RECURSIVE ScanFromStrict(_, _, _, _)
ScanFromStrict(tris, RandA, k, SumA) ==
    IF k > Len(tris) THEN k
    ELSE IF RandA < SumA + tris[k].area THEN k
    ELSE ScanFromStrict(tris, RandA, k + 1, SumA + tris[k].area)

SelectTriangle_Strict(tris, RandA) == ScanFromStrict(tris, RandA, 1, 0)

SelectTriangle(tris, RandA) == ScanFrom(tris, RandA, 1, 0)

\* lines 57-64: the point on triangle t for the draws a, b (the offset along
\* the normal by REFLECT_TOLERANCE is below the grid)
PointOnTriangle(t, a0, b0) ==
    LET a == IF a0 + b0 > 1 THEN 1 - a0 ELSE a0
        b == IF a0 + b0 > 1 THEN 1 - b0 ELSE b0
    IN [i \in 1..3 |-> t.tri[1][i] + a * (t.tri[2][i] - t.tri[1][i])
                                   + b * (t.tri[3][i] - t.tri[1][i])]

\* lines 69-74: vnormal^2 + vtangential^2 = Ekin*cos^2 + Enormal + Ekin*sin^2
SurfaceEnergy(Ekin, Enormal) == IF Enormal > 0 THEN Ekin + Enormal ELSE Ekin

\* what *i may be read as when i = sourcetris.end(): any triangle-sized memory
Garbage == {Tri(Pt(0,0,0), Pt(0,0,0), Pt(0,0,0), 0), Tri(Pt(2,2,2), Pt(1,2,0), Pt(0,1,2), 1)}

\* polarization drawn before the energy (mutant)
SurfaceDraws_PolFirst == <<"time", "select", "pos", "pos", "pol", "energy", "angle", "angle", "construct">>

SurfaceDraws == <<"time", "select", "pos", "pos", "energy", "angle", "angle", "pol", "construct">>

SurfaceReturn(t, k, RandA, a, b, Ekin) ==
    LET c == CreateParticle(source.fParticleName, ParticleCounter,
                            PointOnTriangle(t, a, b), SurfaceEnergy(Ekin, source.Enormal))
    IN /\ loc' = [NoLoc EXCEPT !.RandA = RandA, !.sel = k]
       /\ ParticleCounter' = c.ParticleCounter
       /\ IF c.exit
          THEN /\ pc' = "exited"
               /\ draws' = SubSeq(SurfaceDraws, 1, Len(SurfaceDraws) - 1)
               /\ UNCHANGED <<last, returned>>
          ELSE /\ pc' = "idle"
               /\ draws' = SurfaceDraws
               /\ last' = c.p
               /\ returned' = Append(returned, [number |-> c.p.number, ID |-> c.p.ID])

SurfaceCreateParticle ==
    /\ pc = "idle"
    /\ source.class \in SurfaceClasses
    /\ ncalls < MaxCalls
    /\ ncalls' = ncalls + 1
    /\ trials' = <<>>
    /\ \E RandA \in UniformDist(0, source.sourcearea), a \in UniformDist(0, 1),
          b \in UniformDist(0, 1), Ekin \in Spectrum :
          LET k == SelectTriangle(source.sourcetris, RandA) IN
          IF k <= Len(source.sourcetris)
          THEN SurfaceReturn(source.sourcetris[k], k, RandA, a, b, Ekin)
          ELSE \* i = sourcetris.end() is dereferenced: undefined behaviour
               \/ /\ pc' = "crashed"
                  /\ loc' = [NoLoc EXCEPT !.RandA = RandA, !.sel = k]
                  /\ draws' = SubSeq(SurfaceDraws, 1, 4)
                  /\ UNCHANGED <<ParticleCounter, last, returned>>
               \/ \E g \in Garbage : SurfaceReturn(g, k, RandA, a, b, Ekin)
    /\ UNCHANGED <<sourcemode, sourceconf, geometry, source>>

-----------------------------------------------------------------------------
(* RandomPointInSourceVolume of the three volume sources *)

\* TCuboidVolumeSource: par = <<xmin, xmax, ymin, ymax, zmin, zmax>>
CuboidPoints(par) ==
    {Pt(x, y, z) : x \in UniformDist(par[1], par[2]), y \in UniformDist(par[3], par[4]),
                   z \in UniformDist(par[5], par[6])}

\* TCylindricalVolumeSource: par = <<rmin, rmax, phimin, phimax, zmin, zmax>>;
\* the azimuths drawn on the grid are the multiples of pi/2 in range
CylinderPoints(par) ==
    {Pt(r * Cos(phi_r), r * Sin(phi_r), z) :
        r \in LinearDist(par[1], par[2]),
        phi_r \in {f \in UniformDist(par[3], par[4]) : f % 180 = 0},
        z \in UniformDist(par[5], par[6])}

\* TSTLVolumeSource: the points of the bounding box that pass InSolid; the
\* for(;;) loop ends on one of them, and never ends when there is none
STLPoints(file) ==
    IF Solid(file) = {} THEN {}
    ELSE {p \in {Pt(x, y, z) : x \in UniformDist(BBoxMin(file, 1), BBoxMax(file, 1)),
                               y \in UniformDist(BBoxMin(file, 2), BBoxMax(file, 2)),
                               z \in UniformDist(BBoxMin(file, 3), BBoxMax(file, 3))} :
             InSolid(file, p)}

RandomPointInSourceVolume(src) ==
    CASE src.class = "TCuboidVolumeSource" -> CuboidPoints(src.par)
      [] src.class = "TCylindricalVolumeSource" -> CylinderPoints(src.par)
      [] src.class = "TSTLVolumeSource" -> STLPoints(src.file)
      [] OTHER -> {}

PosDraws == <<"pos", "pos", "pos">>

-----------------------------------------------------------------------------
(* TVolumeSource::CreateParticle *)

\* line 105: the loop condition
LoopCondition(nroll) == nroll <= MAX_DICE_ROLL

\* line 118: the test of the exhaustion branch
BudgetExhausted(nroll) == nroll >= MAX_DICE_ROLL

\* the decrement forgotten (mutant)
Discard_Kept(counter) == counter

\* line 110: ParticleCounter-- after a provisional construction
Discard(counter) == counter - 1

\* line 112: the values mc.UniformDist(0,1) < sqrt((H - V)/H) can take for a
\* draw in [0, 1].  H = 0 divides by zero: +inf passes, -inf and 0/0 give NaN,
\* and a comparison with NaN (also from a negative quotient) is false.
AcceptOutcomes(H, V) ==
    IF H = 0 THEN (IF H - V > 0 THEN {TRUE} ELSE {FALSE})
    ELSE IF (H - V) * H <= 0 THEN {FALSE}                      \* quotient <= 0
    ELSE IF (H > 0 /\ H - V > H) \/ (H < 0 /\ H - V < H) THEN {TRUE}  \* quotient > 1
    ELSE {TRUE, FALSE}

\* lines 94-100 and the entry of the loop
VolumeCreateParticle ==
    /\ pc = "idle"
    /\ source.class \in VolumeClasses
    /\ ncalls < MaxCalls
    /\ ncalls' = ncalls + 1
    /\ trials' = <<>>
    /\ IF RandomPointInSourceVolume(source) = {}
       THEN /\ pc' = "spinning"
            /\ loc' = NoLoc
            /\ draws' = <<"time", "energy", "angle", "pol">> \o PosDraws
       ELSE \E E \in Spectrum, pos \in RandomPointInSourceVolume(source) :
              /\ loc' = [NoLoc EXCEPT !.H = E, !.E = E, !.pos = pos]
              /\ draws' = <<"time", "energy", "angle", "pol">> \o PosDraws
              /\ pc' = IF source.fPhaseSpaceWeighting /\ LoopCondition(0)
                       THEN "loop" ELSE "final"
    /\ UNCHANGED <<sourcemode, sourceconf, geometry, source, ParticleCounter,
                   last, returned>>

\* one pass of the loop body, lines 106-123, and the loop condition after it
VolumeTrial ==
    /\ pc = "loop"
    /\ LET c == CreateParticle(source.fParticleName, ParticleCounter, loc.pos, loc.H) IN
       IF c.exit
       THEN /\ pc' = "exited"
            /\ UNCHANGED <<ParticleCounter, loc, trials, draws, last, returned>>
       ELSE
         LET V == c.p.Hstart - loc.H
             trial(acc, obj) == [pos |-> loc.pos, V |-> V, accept |-> acc, obj |-> obj,
                                 number |-> c.p.number]
         IN \E acc \in AcceptOutcomes(loc.H, V) :
              /\ ParticleCounter' = Discard(c.ParticleCounter)
              /\ IF acc
                 THEN \* E = H - V; delete p
                      /\ trials' = Append(trials, trial(TRUE, "deleted"))
                      /\ UNCHANGED <<last, returned>>
                      /\ IF loc.H - V > 0
                         THEN /\ loc' = [loc EXCEPT !.E = loc.H - V]
                              /\ draws' = draws \o <<"construct", "accept">>
                              /\ pc' = "final"
                         ELSE \E pos \in RandomPointInSourceVolume(source) :
                              /\ loc' = [loc EXCEPT !.E = loc.H - V, !.pos = pos,
                                                    !.nroll = loc.nroll + 1]
                              /\ draws' = draws \o <<"construct", "accept">> \o PosDraws
                              /\ pc' = IF LoopCondition(loc.nroll + 1) THEN "loop" ELSE "final"
                 ELSE IF BudgetExhausted(loc.nroll)
                 THEN \* p->ID = ID_INITIAL_NOT_FOUND; return p
                      /\ trials' = Append(trials, trial(FALSE, "returned"))
                      /\ last' = [c.p EXCEPT !.ID = ID_INITIAL_NOT_FOUND]
                      /\ returned' = Append(returned, [number |-> c.p.number,
                                                       ID |-> ID_INITIAL_NOT_FOUND])
                      /\ draws' = draws \o <<"construct", "accept">>
                      /\ pc' = "idle"
                      /\ UNCHANGED loc
                 ELSE \* p is overwritten by the next pass
                      \E pos \in RandomPointInSourceVolume(source) :
                      /\ trials' = Append(trials, trial(FALSE, "allocated"))
                      /\ loc' = [loc EXCEPT !.pos = pos, !.nroll = loc.nroll + 1]
                      /\ draws' = draws \o <<"construct", "accept">> \o PosDraws
                      /\ pc' = IF LoopCondition(loc.nroll + 1) THEN "loop" ELSE "final"
                      /\ UNCHANGED <<last, returned>>
    /\ UNCHANGED <<sourcemode, sourceconf, geometry, source, ncalls>>

\* lines 126-127
VolumeReturn ==
    /\ pc = "final"
    /\ LET c == CreateParticle(source.fParticleName, ParticleCounter, loc.pos, loc.E) IN
       IF c.exit
       THEN /\ pc' = "exited"
            /\ UNCHANGED <<ParticleCounter, last, returned, draws>>
       ELSE /\ pc' = "idle"
            /\ ParticleCounter' = c.ParticleCounter
            /\ last' = c.p
            /\ returned' = Append(returned, [number |-> c.p.number, ID |-> c.p.ID])
            /\ draws' = Append(draws, "construct")
    /\ UNCHANGED <<sourcemode, sourceconf, geometry, source, loc, trials, ncalls>>

-----------------------------------------------------------------------------
(* TSource::TSource, and the entries the runs start from *)

Modes == {"boxvolume", "cylvolume", "STLvolume", "cylsurface", "STLsurface"}

ParticleNames == {NAME_NEUTRON, NAME_PROTON, NAME_ELECTRON, "muon"}

\* lines 219-264: build the source, exit when there is none
TSource_ctor ==
    /\ pc = "start"
    /\ source' = TSource(sourcemode, sourceconf, geometry)
    /\ pc' = IF source'.class = "NULL" THEN "exited" ELSE "idle"
    /\ ParticleCounter' = 0
    /\ UNCHANGED <<sourcemode, sourceconf, geometry, loc, trials, draws, last,
                   returned, ncalls>>

\* entries for the runs of CreateParticle: per mode, field lists that parse,
\* and one that does not
RunEntries ==
    {<<"boxvolume", <<"0", "0", "0", "0", "0", zmax, "1", psw>>>> :
        zmax \in {"1", "2"}, psw \in {"0", "1"}}
    \cup {<<"cylvolume", <<"1", "1", "0", "0", "0", "2", "1", psw>>>> : psw \in {"0", "1"}}
    \cup {<<"STLvolume", <<file, "1", psw>>>> : file \in {"2", "abc"}, psw \in {"1"}}
    \cup {<<"cylsurface", <<rmin, "2", "0", "0", z[1], z[2], "1", en>>>> :
            rmin \in {"0", "1"}, en \in {"0", "1"},
            z \in {<<"0", "2">>, <<"1", "2">>, <<"2", "2">>, <<"0", "0">>}}
    \cup {<<"STLsurface", <<file, "1", "0">>>> : file \in {"1", "2"}}
    \cup {<<"boxvolume", <<"abc">>>>, <<"spherevolume", <<"1", "1", "1">>>>}

\* the geometries of the runs: the volume sources never read the geometry
RunGeometries(mode) ==
    IF mode \in {"cylsurface", "STLsurface"} THEN Geometries
    ELSE {g \in Geometries : g[1] = TriA}

InitRest ==
    /\ pc = "start"
    /\ source = NullSource
    /\ ParticleCounter = 0
    /\ loc = NoLoc
    /\ trials = <<>>
    /\ draws = <<>>
    /\ last = NoParticle
    /\ returned = <<>>
    /\ ncalls = 0

Init ==
    /\ \E e \in RunEntries, name \in ParticleNames :
          /\ sourcemode = e[1]
          /\ sourceconf = <<name>> \o e[2]
    /\ geometry \in RunGeometries(sourcemode)
    /\ InitRest

Next ==
    \/ TSource_ctor
    \/ SurfaceCreateParticle
    \/ VolumeCreateParticle
    \/ VolumeTrial
    \/ VolumeReturn

Spec == Init /\ [][Next]_vars

-----------------------------------------------------------------------------
(* The dispatcher alone, over a wide set of entries *)

\* field lists of up to the longest list (8 fields) and MaxExtra more tokens,
\* all "1" but for two positions that hold any token
DispatchFields ==
    {<<>>} \cup
    UNION { {[i \in 1..len |-> IF i = a THEN ka ELSE IF i = b THEN kb ELSE "1"] :
                a \in 1..len, b \in 1..len, ka \in Tokens, kb \in Tokens} :
            len \in 1..(8 + MaxExtra) }

InitDispatch ==
    /\ sourcemode \in Modes \cup {"spherevolume"}
    /\ sourceconf \in {<<>>} \cup {<<name>> \o f : name \in ParticleNames, f \in DispatchFields}
    /\ geometry \in Geometries
    /\ InitRest

NextDispatch == TSource_ctor

SpecDispatch == InitDispatch /\ [][NextDispatch]_vars

-----------------------------------------------------------------------------
(* Vocabulary of the claims *)

\* the field list of a mode, as the table of modes gives it
FieldList(mode) ==
    CASE mode \in {"boxvolume", "cylvolume"} ->
           <<"double", "double", "double", "double", "double", "double", "double", "bool">>
      [] mode = "cylsurface" ->
           <<"double", "double", "double", "double", "double", "double", "double", "double">>
      [] mode = "STLvolume" -> <<"string", "double", "bool">>
      [] mode = "STLsurface" -> <<"string", "double", "double">>
      [] OTHER -> <<>>

ClassOf(mode) ==
    CASE mode = "boxvolume" -> "TCuboidVolumeSource"
      [] mode = "cylvolume" -> "TCylindricalVolumeSource"
      [] mode = "STLvolume" -> "TSTLVolumeSource"
      [] mode = "cylsurface" -> "TCylindricalSurfaceSource"
      [] mode = "STLsurface" -> "TSTLSurfaceSource"
      [] OTHER -> "NULL"

\* the token is a value of the type, whole
IsValue(tok, type) ==
    CASE type = "double" -> tok \in {"0", "1", "2"}
      [] type = "bool" -> tok \in {"0", "1"}
      [] OTHER -> TRUE

\* the token starts with a value of the type
StartsWithValue(tok, type) == IsValue(tok, type) \/ (type # "string" /\ tok = "1abc")

\* the fields of the entry after the particle name
Fields == IF sourceconf = <<>> THEN <<>> ELSE Tail(sourceconf)

\* the entry has a particle name, and its fields match the mode's list in count and type
WellFormed ==
    /\ sourcemode \in Modes
    /\ sourceconf # <<>>
    /\ Len(Fields) = Len(FieldList(sourcemode))
    /\ \A i \in 1..Len(Fields) : IsValue(Fields[i], FieldList(sourcemode)[i])

\* the entry has a particle name and at least the mode's fields, each a whole
\* value of its type but the last, which starts with one
Extractable ==
    LET n == Len(FieldList(sourcemode)) IN
    /\ sourcemode \in Modes
    /\ sourceconf # <<>>
    /\ Len(Fields) >= n
    /\ \A i \in 1..(n - 1) : IsValue(Fields[i], FieldList(sourcemode)[i])
    /\ StartsWithValue(Fields[n], FieldList(sourcemode)[n])

Dispatched == pc # "start"

\* the dispatcher built exactly the source of the mode's class and went on
BuiltOne == source.class = ClassOf(sourcemode) /\ source.class # "NULL" /\ pc # "exited"

\* the dispatcher built nothing and terminated the process
BuiltNone == source.class = "NULL" /\ pc = "exited"

-----------------------------------------------------------------------------
(* C6 *)

\* C6 as claimed: a source is built exactly for a recognized mode whose fields
\* match the mode's list in count and type; any other entry, with too few or
\* too many fields, builds nothing and terminates.  (The code ignores surplus.)
C6_AsClaimed ==
    Dispatched => IF WellFormed THEN BuiltOne ELSE BuiltNone

\* C6 amended: the dispatcher builds exactly one source, of the mode's class,
\* when the mode is recognized and the mode's fields can be extracted in order
\* from the entry; it builds nothing and terminates otherwise.  Tokens after
\* the last field, and letters after the last field's value, are ignored.
C6_Dispatch ==
    Dispatched => IF Extractable THEN BuiltOne ELSE BuiltNone

\* C6 witness: an entry with more fields than the list was dispatched to a source
C6_Witness ==
    /\ Dispatched
    /\ sourcemode = "STLvolume"
    /\ Len(Fields) > Len(FieldList(sourcemode))
    /\ BuiltOne

-----------------------------------------------------------------------------
(* C5 *)

UnknownType == sourceconf # <<>> /\ sourceconf[1] \notin {NAME_NEUTRON, NAME_PROTON, NAME_ELECTRON}

\* no particle object was ever constructed
NothingConstructed ==
    ParticleCounter = 0 /\ returned = <<>> /\ trials = <<>> /\ last = NoParticle

\* C5 as claimed: dispatching a well-formed entry of a recognized mode with an
\* unknown particle type terminates the process and builds no source.
C5_AsClaimed ==
    (Dispatched /\ UnknownType /\ WellFormed) => BuiltNone

\* C5 amended: the dispatcher does not look at the particle type.  For an
\* unknown type with a recognized mode and well-formed fields it builds the one
\* source of the mode; the process terminates only when that source's base
\* factory is first asked for a particle, so no CreateParticle call on it ever
\* returns and no particle of an unknown type is ever constructed.
C5_LateExit ==
    (Dispatched /\ UnknownType /\ WellFormed) =>
        /\ source.class = ClassOf(sourcemode)
        /\ NothingConstructed
        /\ (pc = "idle" => ncalls = 0)
        /\ (pc = "exited" => ncalls = 1)

\* C5 witness: a source of unknown particle type was built, and its first
\* CreateParticle call terminated the process in the factory
C5_Witness ==
    /\ UnknownType /\ WellFormed
    /\ source.class = "TCuboidVolumeSource"
    /\ source.fPhaseSpaceWeighting
    /\ pc = "exited" /\ ncalls = 1

-----------------------------------------------------------------------------
(* C7 *)

\* positions of a kind of event in the log of the call
At(kind) == {i \in 1..Len(draws) : draws[i] = kind}

Before(A, B) == \A i \in A, j \in B : i < j

\* C7 as claimed: in every CreateParticle call, surface or volume, the first
\* position draw precedes the energy, angle and polarization draws, and
\* polarization is the last draw before the particle is constructed.
C7_AsClaimed ==
    /\ \A i \in At("pos") : (\A j \in At("pos") : i <= j) =>
           Before({i}, At("energy") \cup At("angle") \cup At("pol"))
    /\ \A c \in At("construct") : (\A d \in At("construct") : c <= d) =>
           (c > 1 /\ draws[c - 1] = "pol")

\* C7 amended: the surface source draws time, triangle selection, position,
\* energy, angles and polarization in this order, polarization last before
\* the construction.  The volume source draws time, energy, angles and
\* polarization first, in this order, and its position only after them: a
\* position draw, not polarization, is the last draw before the first
\* construction, and each later construction of a weighted call follows a
\* position draw or the acceptance draw of the candidate it is built at.
C7_DrawOrder ==
    /\ source.class \in SurfaceClasses =>
         \E n \in 0..9 : draws = SubSeq(<<"time", "select", "pos", "pos", "energy", "angle",
                                          "angle", "pol", "construct">>, 1, n)
    /\ source.class \in VolumeClasses =>
         /\ \E n \in 0..4 : SubSeq(draws, 1, Min2(4, Len(draws)))
                              = SubSeq(<<"time", "energy", "angle", "pol">>, 1, n)
         /\ \A i \in 5..Len(draws) : draws[i] \in {"pos", "accept", "construct"}
         /\ \A c \in At("construct") :
              /\ c > 5
              /\ draws[c - 1] \in {"pos", "accept"}
              /\ (\A d \in At("construct") : c <= d) => draws[c - 1] = "pos"

\* C7 witness: a weighted volume call returned after a rejected trial
C7_Witness ==
    /\ pc = "idle" /\ ncalls > 0
    /\ source.class \in VolumeClasses
    /\ Len(trials) >= 2
    /\ Cardinality(At("construct")) >= 3

-----------------------------------------------------------------------------
(* C8 *)

\* sum of the areas of the first k triangles
PrefixArea(tris, k) == SumArea(SubSeq(tris, 1, k))

SurfaceCallMade == source.class \in SurfaceClasses /\ ncalls > 0

\* C8: on a surface source with at least one triangle whose cached area is the
\* sum of the member areas, a call that drew u selected the triangle of the
\* smallest index k whose cumulative area over triangles 1..k is >= u, and
\* the scan stopped inside the list.
C8_Selection ==
    (/\ SurfaceCallMade
     /\ source.sourcetris # <<>>
     /\ source.sourcearea = PrefixArea(source.sourcetris, Len(source.sourcetris))) =>
        /\ loc.sel \in 1..Len(source.sourcetris)
        /\ PrefixArea(source.sourcetris, loc.sel) >= loc.RandA
        /\ \A j \in 1..(loc.sel - 1) : PrefixArea(source.sourcetris, j) < loc.RandA

\* C8 witness: the draw equals the cumulative area of the second triangle of a
\* longer list, and the particle returned lies on it
C8_Witness ==
    /\ SurfaceCallMade /\ pc = "idle"
    /\ Len(source.sourcetris) > 2
    /\ loc.sel = 2
    /\ loc.RandA = PrefixArea(source.sourcetris, 2)
    /\ loc.RandA > PrefixArea(source.sourcetris, 1)

-----------------------------------------------------------------------------
(* C4 *)

\* the particles returned without sentinel status, in call order
Emitted == SelectSeq(returned, LAMBDA r : r.ID # ID_INITIAL_NOT_FOUND)

\* C4: the numbers of the particles returned without sentinel status are
\* 1, 2, 3, ... in call order, and the counter, never negative, equals the
\* number of such particles whenever no construction is in flight.
C4_Ids ==
    /\ \A i \in 1..Len(Emitted) : Emitted[i].number = i
    /\ ParticleCounter >= 0
    /\ ParticleCounter = Len(Emitted)

\* C4 witness: an exhausted call returned the sentinel, and the next call, after
\* a rejected trial, returned the particle numbered 1
C4_Witness ==
    /\ pc = "idle"
    /\ Len(returned) = 2
    /\ returned[1].ID = ID_INITIAL_NOT_FOUND
    /\ returned[2] = [number |-> 1, ID |-> ID_UNKNOWN]
    /\ Len(trials) >= 2

-----------------------------------------------------------------------------
(* C1, C2, C3, C10: the phase-space-weighted search *)

\* a call of a phase-space-weighted volume source has returned
WeightedCallReturned ==
    /\ pc = "idle" /\ ncalls > 0
    /\ source.class \in VolumeClasses /\ source.fPhaseSpaceWeighting

\* the kinetic energy H - V of a trial of the call
KineticEnergy(tr) == loc.H - tr.V

\* a trial that left the loop: accepted with strictly positive kinetic energy
Successful(tr) == tr.accept /\ KineticEnergy(tr) > 0

NoneSuccessful == \A i \in 1..Len(trials) : ~Successful(trials[i])

\* C1 as claimed: a call in which every trial is rejected returns the sentinel
\* after exactly MAX_DICE_ROLL trials, and no call makes more than
\* MAX_DICE_ROLL trials.  (The loop runs nroll = 0 .. MAX_DICE_ROLL.)
C1_AsClaimed ==
    /\ Len(trials) <= MAX_DICE_ROLL
    /\ (/\ WeightedCallReturned
        /\ last.ID = ID_INITIAL_NOT_FOUND
        /\ \A i \in 1..Len(trials) : ~trials[i].accept) => Len(trials) = MAX_DICE_ROLL

\* C2 as claimed: a call that ends its search without a trial accepted with
\* strictly positive kinetic energy returns the last provisional particle,
\* marked with the sentinel, and constructs nothing after it.
C2_AsClaimed ==
    (WeightedCallReturned /\ NoneSuccessful) =>
        /\ last.ID = ID_INITIAL_NOT_FOUND
        /\ trials[Len(trials)].obj = "returned"
        /\ last.number = trials[Len(trials)].number
        /\ last.pos = trials[Len(trials)].pos
        /\ draws[Len(draws)] # "construct"

\* C3 as claimed: a particle returned without sentinel status was constructed
\* at the position of the accepted candidate, with E = H - V for the potential
\* V at that position, and E > 0.
C3_AsClaimed ==
    (WeightedCallReturned /\ last.ID # ID_INITIAL_NOT_FOUND) =>
        /\ trials # <<>>
        /\ Successful(trials[Len(trials)])
        /\ last.pos = trials[Len(trials)].pos
        /\ last.E = loc.H - Potential(last.pos)
        /\ last.E > 0

\* C10 as claimed: when a call has returned, every provisional particle of
\* its search has been deleted or returned to the caller.
C10_AsClaimed ==
    WeightedCallReturned =>
        \A i \in 1..Len(trials) : trials[i].obj \in {"deleted", "returned"}

-----------------------------------------------------------------------------
(* C9 *)

\* C9 as claimed: no clipped surface source with an empty emitting set exists
\* after construction, and no call reads a triangle outside the set.
C9_AsClaimed ==
    /\ source.class \in SurfaceClasses => source.sourcetris # <<>>
    /\ SurfaceCallMade => loc.sel \in 1..Len(source.sourcetris)

=============================================================================
